---- MODULE Spec2Model ----
(***************************************************************************)
(* Model of channels_graphql_ws/dict_as_object.py: the DictAsObject        *)
(* wrapper around a Channels scope mapping, and the request helpers it     *)
(* copies from django.http.request.HttpRequest (build_meta,                *)
(* build_absolute_uri, get_host).                                          *)
(*                                                                         *)
(* Python values are records [t, v]: t is the type tag, v the payload.     *)
(*   str    a TLA+ string                                                  *)
(*   bytes  a sequence of byte values 0..255                               *)
(*   ref    the identity of a mutable mapping that lives in `heap`         *)
(*   dict   a dictionary held by value (the META dictionary)               *)
(*   list   a sequence of <<name bytes, value bytes>> header pairs         *)
(*   method a bound method of the wrapper                                  *)
(*   bool, None                                                            *)
(* An operation of the wrapper is an operator from the state it reads to   *)
(* a record [res, heap, self]: the outcome (value returned or exception    *)
(* raised) and the mappings and instance dictionary it leaves behind.      *)
(***************************************************************************)
EXTENDS Integers, Sequences, FiniteSets, TLC

VARIABLES
    settings,   \* django.conf.settings: DEBUG, ALLOWED_HOSTS, USE_X_FORWARDED_HOST
    heap,       \* the mutable mappings, by identity
    self,       \* the wrapper's instance dictionary (_scope, cached properties)
    last        \* the last call made and its outcome

vars == <<settings, heap, self, last>>

----------------------------------------------------------------------------
(* Python values and outcomes *)

Str(s) == [t |-> "str", v |-> s]
Bytes(b) == [t |-> "bytes", v |-> b]
Ref(id) == [t |-> "ref", v |-> id]
Dict(d) == [t |-> "dict", v |-> d]
List(l) == [t |-> "list", v |-> l]
Bool(b) == [t |-> "bool", v |-> b]
Method(m) == [t |-> "method", v |-> m]
None == [t |-> "None", v |-> ""]

Return(value) == [exc |-> "", msg |-> "", val |-> value]
Raise(exception, message) == [exc |-> exception, msg |-> message, val |-> None]
Raised(outcome) == outcome.exc # ""

\* A local name: Body applied to the value.
With(value, Body(_)) == Body(value)

(* dict operations on a mapping held as a function *)
Put(d, key, value) == [k \in DOMAIN d \cup {key} |-> IF k = key THEN value ELSE d[k]]
Del(d, key) == [k \in DOMAIN d \ {key} |-> d[k]]
Get(d, key, default) == IF key \in DOMAIN d THEN d[key] ELSE default

(* str operations *)
startswith(s, prefix) ==
    Len(s) >= Len(prefix) /\ SubSeq(s, 1, Len(prefix)) = prefix
endswith(s, suffix) ==
    Len(s) >= Len(suffix) /\ SubSeq(s, Len(s) - Len(suffix) + 1, Len(s)) = suffix
Contains(s, part) ==
    \E i \in 1..(Len(s) - Len(part) + 1) : SubSeq(s, i, i + Len(part) - 1) = part
removeprefix(s, prefix) ==
    IF startswith(s, prefix) THEN SubSeq(s, Len(prefix) + 1, Len(s)) ELSE s
removesuffix(s, suffix) ==
    IF endswith(s, suffix) THEN SubSeq(s, 1, Len(s) - Len(suffix)) ELSE s

----------------------------------------------------------------------------
(* Subscription of an arbitrary value, as the wrapper's code relies on it *)

\* obj[key] with a str key
Subscript(h, obj, key) ==
    IF obj.t = "ref"
    THEN IF key \in DOMAIN h[obj.v] THEN Return(h[obj.v][key]) ELSE Raise("KeyError", key)
    ELSE IF obj.t = "dict"
    THEN IF key \in DOMAIN obj.v THEN Return(obj.v[key]) ELSE Raise("KeyError", key)
    ELSE Raise("TypeError", "")

\* obj[key] = value
StoreSubscript(h, obj, key, value) ==
    IF obj.t = "ref"
    THEN [res |-> Return(None), heap |-> [h EXCEPT ![obj.v] = Put(@, key, value)]]
    ELSE [res |-> Raise("TypeError", ""), heap |-> h]

\* del obj[key]
DeleteSubscript(h, obj, key) ==
    IF obj.t = "ref"
    THEN IF key \in DOMAIN h[obj.v]
         THEN [res |-> Return(None), heap |-> [h EXCEPT ![obj.v] = Del(@, key)]]
         ELSE [res |-> Raise("KeyError", key), heap |-> h]
    ELSE [res |-> Raise("TypeError", ""), heap |-> h]

\* item in obj, with a str item
In(h, obj, item) ==
    IF obj.t = "ref" THEN Return(Bool(item \in DOMAIN h[obj.v]))
    ELSE IF obj.t = "dict" THEN Return(Bool(item \in DOMAIN obj.v))
    ELSE IF obj.t = "str" THEN Return(Bool(Contains(obj.v, item)))
    ELSE Raise("TypeError", "")

----------------------------------------------------------------------------
(* DictAsObject: the wrapper functions *)

\* The names the class defines as plain methods.
Methods ==
    {"build_meta", "build_absolute_uri", "get_full_path", "is_secure", "get_host"}

\* __getattr__ as it would be with the inner try around the second subscript
\* only: a scope without "channels_scope" lets the KeyError out.
getattr_unguarded_fallback(h, inst, name) ==
    LET outcome ==
        IF startswith(name, "_") THEN Raise("AttributeError", "")
        ELSE LET first == Subscript(h, inst["_scope"], name) IN
             IF first.exc # "KeyError" THEN first
             ELSE LET fallback == Subscript(h, inst["_scope"], "channels_scope") IN
                  IF Raised(fallback) THEN fallback
                  ELSE LET second == Subscript(h, fallback.val, name) IN
                       IF second.exc = "KeyError" THEN Raise("AttributeError", "")
                       ELSE second
    IN  [res |-> outcome, heap |-> h, self |-> inst]

\* __getattr__ as it would be with the two lookups in the other order.
getattr_fallback_first(h, inst, name) ==
    LET outcome ==
        IF startswith(name, "_") THEN Raise("AttributeError", "")
        ELSE LET fallback == Subscript(h, inst["_scope"], "channels_scope")
                 second == IF Raised(fallback) THEN fallback
                           ELSE Subscript(h, fallback.val, name)
             IN  IF ~Raised(second) THEN second
                 ELSE LET first == Subscript(h, inst["_scope"], name) IN
                      IF first.exc = "KeyError" THEN Raise("AttributeError", "") ELSE first
    IN  [res |-> outcome, heap |-> h, self |-> inst]

\* __getattr__, the hook Python calls when the ordinary lookup finds nothing.
\* self._scope is an ordinary lookup: _scope is in the instance dictionary.
__getattr__(h, inst, name) ==
    [heap |-> h, self |-> inst, res |->
        IF startswith(name, "_") THEN Raise("AttributeError", "")
        ELSE
        With(Subscript(h, inst["_scope"], name), LAMBDA first :
        IF first.exc # "KeyError" THEN first
        ELSE
        With(Subscript(h, inst["_scope"], "channels_scope"), LAMBDA fallback :
        IF fallback.exc = "KeyError" THEN Raise("AttributeError", "")
        ELSE IF Raised(fallback) THEN fallback
        ELSE
        With(Subscript(h, fallback.val, name), LAMBDA second :
        IF second.exc = "KeyError" THEN Raise("AttributeError", "")
        ELSE second)))]

\* Python's attribute read for every name but the cached property: the
\* instance dictionary, then the class, then __getattr__.
getattribute(h, inst, name) ==
    IF name \in DOMAIN inst THEN [res |-> Return(inst[name]), heap |-> h, self |-> inst]
    ELSE IF name \in Methods \cup {"_asdict", "_get_full_path", "_get_raw_host"}
    THEN [res |-> Return(Method(name)), heap |-> h, self |-> inst]
    ELSE __getattr__(h, inst, name)

\* The outcome of reading self.<name> inside a method of the wrapper.
LoadAttr(h, inst, name) == getattribute(h, inst, name).res

\* __setattr__: an underscore name is set on the instance, and every name,
\* underscore or not, is then stored in the scope.
__setattr__(h, inst, name, value) ==
    LET inst1 == IF startswith(name, "_") THEN Put(inst, name, value) ELSE inst
        stored == StoreSubscript(h, inst1["_scope"], name, value)
    IN  [res |-> stored.res, heap |-> stored.heap, self |-> inst1]

\* __init__ as it would be if the wrapper kept a copy: self._scope = dict(scope).
init_copying(h, scope) ==
    __setattr__([id \in DOMAIN h \cup {"copy"} |-> IF id = "copy" THEN h[scope.v] ELSE h[id]],
                <<>>, "_scope", Ref("copy"))

\* __init__(scope): self._scope = scope, which goes through __setattr__.
__init__(h, scope) == __setattr__(h, <<>>, "_scope", scope)

_asdict(h, inst) == [res |-> Return(inst["_scope"]), heap |-> h, self |-> inst]

__getitem__(h, inst, key) ==
    [res |-> Subscript(h, inst["_scope"], key), heap |-> h, self |-> inst]

__setitem__(h, inst, key, value) ==
    LET stored == StoreSubscript(h, inst["_scope"], key, value)
    IN  [res |-> stored.res, heap |-> stored.heap, self |-> inst]

__delitem__(h, inst, key) ==
    LET deleted == DeleteSubscript(h, inst["_scope"], key)
    IN  [res |-> deleted.res, heap |-> deleted.heap, self |-> inst]

__contains__(h, inst, item) ==
    [res |-> In(h, inst["_scope"], item), heap |-> h, self |-> inst]

----------------------------------------------------------------------------
(* str and bytes conversions *)

\* Printable ASCII by code point.  Code points 34, 92 and 96 and the control
\* characters have no place in a TLA+ string and occur in no input.
AsciiFrom35 == "#$%&'()*+,-./0123456789:;<=>?@ABCDEFGHIJKLMNOPQRSTUVWXYZ["
AsciiFrom97 == "abcdefghijklmnopqrstuvwxyz{|}~"
AsciiCodes == {32, 33} \cup (35..91) \cup (93..95) \cup (97..126)

chr(n) ==
    IF n = 32 THEN " "
    ELSE IF n = 33 THEN "!"
    ELSE IF n <= 91 THEN SubSeq(AsciiFrom35, n - 34, n - 34)
    ELSE IF n <= 95 THEN SubSeq("]^_", n - 92, n - 92)
    ELSE SubSeq(AsciiFrom97, n - 96, n - 96)

CodePoints == [c \in {chr(n) : n \in AsciiCodes} |-> CHOOSE n \in AsciiCodes : chr(n) = c]
ord(c) == CodePoints[c]

\* Character classes, as sets of one-character strings.
CharSet(s) == {SubSeq(s, i, i) : i \in 1..Len(s)}
AllIn(s, class) == \A i \in 1..Len(s) : SubSeq(s, i, i) \in class
Lowercase == CharSet("abcdefghijklmnopqrstuvwxyz")
Uppercase == CharSet("ABCDEFGHIJKLMNOPQRSTUVWXYZ")
Digits == CharSet("0123456789")

RECURSIVE upper(_)
upper(s) ==
    IF s = "" THEN ""
    ELSE LET c == Head(s) IN
         (IF c \in Lowercase THEN chr(ord(c) - 32) ELSE c) \o upper(Tail(s))

RECURSIVE lower(_)
lower(s) ==
    IF s = "" THEN ""
    ELSE LET c == Head(s) IN
         (IF c \in Uppercase THEN chr(ord(c) + 32) ELSE c) \o lower(Tail(s))

\* s.replace(old, new) for a one-character old.
RECURSIVE replace(_, _, _)
replace(s, old, new) ==
    IF s = "" THEN ""
    ELSE (IF Head(s) = old THEN new ELSE Head(s)) \o replace(Tail(s), old, new)

\* bytes.decode("utf-8").  An ASCII byte decodes to its character; the
\* bytes 248..255 appear in no well-formed UTF-8 sequence and fail the
\* decoding.  Multi-byte sequences occur in no input.
RECURSIVE decode(_)
decode(b) ==
    IF b = <<>> THEN Return(Str(""))
    ELSE IF Head(b) >= 128 THEN Raise("UnicodeDecodeError", "")
    ELSE LET rest == decode(Tail(b)) IN
         IF Raised(rest) THEN rest ELSE Return(Str(chr(Head(b)) \o rest.val.v))

\* str.encode() of an ASCII string.
encode(s) == [i \in 1..Len(s) |-> ord(SubSeq(s, i, i))]

----------------------------------------------------------------------------
(* build_meta *)

\* mapping.get(key, default) on the value of self.channels_scope
MappingGet(h, obj, key, default) ==
    IF obj.t = "ref" THEN Return(Get(h[obj.v], key, default))
    ELSE IF obj.t = "dict" THEN Return(Get(obj.v, key, default))
    ELSE Raise("AttributeError", "get")

\* The loop of build_meta over the header pairs, from the META built so far.
\* The right-hand side of the assignment is evaluated before the key.
RECURSIVE MetaFromHeaders(_, _)
MetaFromHeaders(headers, META) ==
    IF headers = <<>> THEN Return(Dict(META))
    ELSE LET value == decode(Head(headers)[2])
             key == decode(Head(headers)[1])
         IN  IF Raised(value) THEN value
             ELSE IF Raised(key) THEN key
             ELSE MetaFromHeaders(
                      Tail(headers),
                      Put(META, upper(replace(key.val.v, "-", "_")), value.val))

\* build_meta as it would be with QUERY_STRING set before the loop: a header
\* that converts to QUERY_STRING then overrides the query string.
build_meta_query_first(h, inst) ==
    With(LoadAttr(h, inst, "channels_scope"), LAMBDA channels_scope :
    IF Raised(channels_scope) THEN [res |-> channels_scope, heap |-> h, self |-> inst]
    ELSE
    With(decode(MappingGet(h, channels_scope.val, "query_string", Bytes(<<>>)).val.v),
         LAMBDA decoded :
    IF Raised(decoded) THEN [res |-> decoded, heap |-> h, self |-> inst]
    ELSE
    With(MetaFromHeaders(MappingGet(h, channels_scope.val, "headers", List(<<>>)).val.v,
                         [QUERY_STRING |-> decoded.val]), LAMBDA META :
    IF Raised(META) THEN [res |-> META, heap |-> h, self |-> inst]
    ELSE __setattr__(h, inst, "META", META.val))))

build_meta(h, inst) ==
    With(LoadAttr(h, inst, "channels_scope"), LAMBDA channels_scope :
    IF Raised(channels_scope) THEN [res |-> channels_scope, heap |-> h, self |-> inst]
    ELSE
    With(MappingGet(h, channels_scope.val, "headers", List(<<>>)), LAMBDA headers :
    IF Raised(headers) THEN [res |-> headers, heap |-> h, self |-> inst]
    ELSE IF headers.val.t # "list"
    THEN [res |-> Raise("TypeError", ""), heap |-> h, self |-> inst]
    ELSE
    With(MetaFromHeaders(headers.val.v, <<>>), LAMBDA META :
    IF Raised(META) THEN [res |-> META, heap |-> h, self |-> inst]
    ELSE
    With(MappingGet(h, channels_scope.val, "query_string", Bytes(<<>>)).val,
         LAMBDA query_string :
    IF query_string.t # "bytes"
    THEN [res |-> Raise("AttributeError", "decode"), heap |-> h, self |-> inst]
    ELSE
    With(decode(query_string.v), LAMBDA decoded :
    IF Raised(decoded) THEN [res |-> decoded, heap |-> h, self |-> inst]
    ELSE __setattr__(h, inst, "META",
                     Dict(Put(META.val.v, "QUERY_STRING", decoded.val))))))))

----------------------------------------------------------------------------
(* Host validation: django.http.request.split_domain_port, validate_host *)

\* host_validation_re:
\*   ^([a-z0-9.-]+|\[[a-f0-9]*:[a-f0-9\.:]+\])(?::([0-9]+))?$
DomainChars == Lowercase \cup Digits \cup CharSet(".-")
HexChars == CharSet("abcdef0123456789")
MatchesName(s) == Len(s) >= 1 /\ AllIn(s, DomainChars)
MatchesIPv6(s) ==
    /\ Len(s) >= 4
    /\ Head(s) = "[" /\ SubSeq(s, Len(s), Len(s)) = "]"
    /\ \E i \in 2..(Len(s) - 2) :
          /\ SubSeq(s, i, i) = ":"
          /\ AllIn(SubSeq(s, 2, i - 1), HexChars)
          /\ AllIn(SubSeq(s, i + 1, Len(s) - 1), HexChars \cup CharSet(".:"))
MatchesPort(s) == s = "" \/ (Len(s) >= 2 /\ Head(s) = ":" /\ AllIn(Tail(s), Digits))
host_validation_re(host) ==
    \E i \in 0..Len(host) :
        /\ MatchesName(SubSeq(host, 1, i)) \/ MatchesIPv6(SubSeq(host, 1, i))
        /\ MatchesPort(SubSeq(host, i + 1, Len(host)))

\* The indexes at which a one-character separator occurs.
Occurrences(s, sep) == {i \in 1..Len(s) : SubSeq(s, i, i) = sep}

\* The index of the last occurrence of the separator, 0 if none.
rfind(s, sep) ==
    LET at == Occurrences(s, sep) IN
    IF at = {} THEN 0 ELSE CHOOSE i \in at : \A j \in at : j <= i

\* The index of the first occurrence of the separator, 0 if none.
find(s, sep) ==
    LET at == Occurrences(s, sep) IN
    IF at = {} THEN 0 ELSE CHOOSE i \in at : \A j \in at : i <= j

split_domain_port(rawHost) ==
    With(lower(rawHost), LAMBDA host :
    IF ~host_validation_re(host) THEN [domain |-> "", port |-> ""]
    ELSE IF endswith(host, "]") THEN [domain |-> host, port |-> ""]
    ELSE
    With(rfind(host, ":"), LAMBDA colon :
    IF colon > 0
    THEN [domain |-> removesuffix(SubSeq(host, 1, colon - 1), "."),
          port |-> SubSeq(host, colon + 1, Len(host))]
    ELSE [domain |-> removesuffix(host, "."), port |-> ""]))

is_same_domain(host, rawPattern) ==
    IF rawPattern = "" THEN FALSE
    ELSE LET pattern == lower(rawPattern) IN
         \/ /\ Head(pattern) = "."
            /\ endswith(host, pattern) \/ host = Tail(pattern)
         \/ pattern = host

validate_host(host, allowed_hosts) ==
    \E i \in 1..Len(allowed_hosts) :
        allowed_hosts[i] = "*" \/ is_same_domain(host, allowed_hosts[i])

----------------------------------------------------------------------------
(* get_host and what it rests on *)

\* _get_raw_host: three options, in order of decreasing preference.
HostFromMeta(h, META) ==
    With(In(h, META, "HOST"), LAMBDA present :
    IF Raised(present) THEN present
    ELSE IF present.val.v THEN Subscript(h, META, "HOST")
    ELSE Return(Str("localhost")))

\* _get_raw_host as it would be without the USE_X_FORWARDED_HOST test.
get_raw_host_trusting_forwarded(h, inst, st) ==
    With(LoadAttr(h, inst, "META"), LAMBDA META :
    IF Raised(META) THEN META
    ELSE
    With(In(h, META.val, "X_FORWARDED_HOST"), LAMBDA forwarded :
    IF Raised(forwarded) THEN forwarded
    ELSE IF forwarded.val.v THEN Subscript(h, META.val, "X_FORWARDED_HOST")
    ELSE HostFromMeta(h, META.val)))

_get_raw_host(h, inst, st) ==
    With(LoadAttr(h, inst, "META"), LAMBDA META :
    IF Raised(META) THEN META
    ELSE IF ~st.USE_X_FORWARDED_HOST THEN HostFromMeta(h, META.val)
    ELSE
    With(In(h, META.val, "X_FORWARDED_HOST"), LAMBDA forwarded :
    IF Raised(forwarded) THEN forwarded
    ELSE IF forwarded.val.v THEN Subscript(h, META.val, "X_FORWARDED_HOST")
    ELSE HostFromMeta(h, META.val)))

DisallowedHostMessage(host, domain) ==
    "Invalid HTTP_HOST header: '" \o host \o "'."
    \o (IF domain # ""
        THEN " You may need to add '" \o domain \o "' to ALLOWED_HOSTS."
        ELSE " The domain name provided is not valid according to RFC 1034/1035.")

\* The allow-list as it would be with the localhost variants substituted
\* whenever ALLOWED_HOSTS is empty, DEBUG or not.
allowed_hosts_ignoring_debug(st) ==
    IF st.ALLOWED_HOSTS = <<>>
    THEN <<".localhost", "127.0.0.1", "[::1]">>
    ELSE st.ALLOWED_HOSTS

\* Allow variants of localhost if ALLOWED_HOSTS is empty and DEBUG=True.
AllowedHosts(st) ==
    IF st.DEBUG /\ st.ALLOWED_HOSTS = <<>>
    THEN <<".localhost", "127.0.0.1", "[::1]">>
    ELSE st.ALLOWED_HOSTS

\* get_host as it would be with the test on the domain dropped: a host whose
\* domain part is empty is validated as the empty string.
get_host_unchecked_domain(h, inst, st) ==
    With(_get_raw_host(h, inst, st), LAMBDA host :
    IF Raised(host) THEN host
    ELSE IF host.val.t # "str" THEN Raise("AttributeError", "lower")
    ELSE
    With(split_domain_port(host.val.v), LAMBDA split :
    IF split.domain = "" \/ validate_host(split.domain, AllowedHosts(st))
    THEN host
    ELSE Raise("DisallowedHost", DisallowedHostMessage(host.val.v, split.domain))))

get_host(h, inst, st) ==
    With(_get_raw_host(h, inst, st), LAMBDA host :
    IF Raised(host) THEN host
    ELSE IF host.val.t # "str" THEN Raise("AttributeError", "lower")
    ELSE
    With(split_domain_port(host.val.v), LAMBDA split :
    IF split.domain # "" /\ validate_host(split.domain, AllowedHosts(st))
    THEN host
    ELSE Raise("DisallowedHost", DisallowedHostMessage(host.val.v, split.domain))))

is_secure(st) == ~st.DEBUG

\* The body of the cached property.
_current_scheme_host(h, inst, st) ==
    With(get_host(h, inst, st), LAMBDA host :
    IF Raised(host) THEN host
    ELSE Return(Str((IF is_secure(st) THEN "https" ELSE "http") \o "://" \o host.val.v)))

\* Reading self._current_scheme_host.  cached_property computes the value on
\* the first read and keeps it in the instance dictionary, past __setattr__;
\* a read that raises keeps nothing.  An AttributeError out of the body sends
\* Python on to __getattr__, which raises AttributeError for the name.
cached_property(h, inst, st) ==
    IF "_current_scheme_host" \in DOMAIN inst
    THEN [res |-> Return(inst["_current_scheme_host"]), self |-> inst]
    ELSE
    With(_current_scheme_host(h, inst, st), LAMBDA computed :
    IF computed.exc = "AttributeError"
    THEN [res |-> __getattr__(h, inst, "_current_scheme_host").res, self |-> inst]
    ELSE IF Raised(computed) THEN [res |-> computed, self |-> inst]
    ELSE [res |-> computed, self |-> Put(inst, "_current_scheme_host", computed.val)])

----------------------------------------------------------------------------
(* URLs: urllib.parse.urlsplit, urljoin; django.utils.encoding *)

HexDigits == "0123456789ABCDEF"
PercentEncoded(c) ==
    "%" \o SubSeq(HexDigits, (ord(c) \div 16) + 1, (ord(c) \div 16) + 1)
        \o SubSeq(HexDigits, (ord(c) % 16) + 1, (ord(c) % 16) + 1)

\* urllib.parse.quote(s, safe) of an ASCII string: letters, digits, "_.-~"
\* and the safe characters stay, every other character is percent-encoded.
AlwaysSafe == Lowercase \cup Uppercase \cup Digits \cup CharSet("_.-~")
RECURSIVE quote(_, _)
quote(s, safe) ==
    IF s = "" THEN ""
    ELSE LET c == Head(s) IN
         (IF c \in AlwaysSafe \cup safe THEN c ELSE PercentEncoded(c))
         \o quote(Tail(s), safe)

IriSafe == CharSet("/#%[]=:;$&()+,!?*@'~")
PathSafe == CharSet("/:@&+$,-_.!~*'()")
iri_to_uri(iri) == quote(iri, IriSafe)
escape_uri_path(path) == quote(path, PathSafe)

RECURSIVE lstrip(_)
lstrip(s) == IF s # "" /\ Head(s) = " " THEN lstrip(Tail(s)) ELSE s

\* _splitnetloc(url, 2): the end of the network location, the first of "/?#"
\* at or after the third character.
NetlocEnd(url) ==
    LET ends == {i \in 3..Len(url) : SubSeq(url, i, i) \in CharSet("/?#")}
    IN  IF ends = {} THEN Len(url) + 1 ELSE CHOOSE i \in ends : \A j \in ends : i <= j

scheme_chars == Lowercase \cup Uppercase \cup Digits \cup CharSet("+-.")

\* The parts of urlsplit, in the order the function takes them off the URL.
SplitQuery(scheme, netloc, url, fragment) ==
    With(find(url, "?"), LAMBDA mark :
    [exc |-> IF (Occurrences(netloc, "[") = {}) # (Occurrences(netloc, "]") = {})
             THEN "ValueError" ELSE "",
     scheme |-> scheme, netloc |-> netloc,
     path |-> IF mark > 0 THEN SubSeq(url, 1, mark - 1) ELSE url,
     query |-> IF mark > 0 THEN SubSeq(url, mark + 1, Len(url)) ELSE "",
     fragment |-> fragment])

SplitFragment(scheme, netloc, url) ==
    With(find(url, "#"), LAMBDA hash :
    IF hash > 0
    THEN SplitQuery(scheme, netloc, SubSeq(url, 1, hash - 1), SubSeq(url, hash + 1, Len(url)))
    ELSE SplitQuery(scheme, netloc, url, ""))

SplitNetloc(scheme, url) ==
    IF startswith(url, "//")
    THEN With(NetlocEnd(url), LAMBDA delim :
         SplitFragment(scheme, SubSeq(url, 3, delim - 1), SubSeq(url, delim, Len(url))))
    ELSE SplitFragment(scheme, "", url)

SplitScheme(url) ==
    With(find(url, ":"), LAMBDA colon :
    IF /\ colon > 1
       /\ Head(url) \in Lowercase \cup Uppercase
       /\ AllIn(SubSeq(url, 1, colon - 1), scheme_chars)
    THEN SplitNetloc(lower(SubSeq(url, 1, colon - 1)), SubSeq(url, colon + 1, Len(url)))
    ELSE SplitNetloc("", url))

urlsplit(url) == SplitScheme(lstrip(url))

uses_relative ==
    {"", "ftp", "http", "gopher", "nntp", "imap", "wais", "file", "https", "shttp",
     "mms", "prospero", "rtsp", "rtsps", "rtspu", "sftp", "svn", "svn+ssh", "ws", "wss"}
uses_netloc ==
    {"", "ftp", "http", "gopher", "nntp", "telnet", "imap", "wais", "file", "mms",
     "https", "shttp", "snews", "prospero", "rtsp", "rtsps", "rtspu", "rsync", "svn",
     "svn+ssh", "sftp", "nfs", "git", "git+ssh", "ws", "wss"}

urlunsplit(scheme, netloc, path, query, fragment) ==
    LET url1 ==
            IF netloc # "" \/ (scheme # "" /\ scheme \in uses_netloc /\ ~startswith(path, "//"))
            THEN "//" \o netloc \o (IF path # "" /\ Head(path) # "/" THEN "/" ELSE "") \o path
            ELSE path
        url2 == IF scheme # "" THEN scheme \o ":" \o url1 ELSE url1
        url3 == IF query # "" THEN url2 \o "?" \o query ELSE url2
    IN  IF fragment # "" THEN url3 \o "#" \o fragment ELSE url3

RECURSIVE split(_, _)
split(s, sep) ==
    LET i == find(s, sep) IN
    IF i = 0 THEN <<s>> ELSE <<SubSeq(s, 1, i - 1)>> \o split(SubSeq(s, i + 1, Len(s)), sep)

RECURSIVE join(_, _)
join(sep, parts) ==
    IF parts = <<>> THEN ""
    ELSE IF Len(parts) = 1 THEN parts[1]
    ELSE parts[1] \o sep \o join(sep, Tail(parts))

\* The loop of urljoin that resolves "." and ".." segments.
RECURSIVE ResolveDots(_, _)
ResolveDots(segments, resolved) ==
    IF segments = <<>> THEN resolved
    ELSE LET seg == Head(segments) IN
         ResolveDots(
             Tail(segments),
             IF seg = ".."
             THEN (IF resolved = <<>> THEN resolved ELSE SubSeq(resolved, 1, Len(resolved) - 1))
             ELSE IF seg = "." THEN resolved
             ELSE Append(resolved, seg))

\* The path of urljoin: the segments of the base path without its last one,
\* then those of the relative path, empty middle segments dropped, dots
\* resolved.
JoinedSegments(bpath, path) ==
    IF startswith(path, "/") THEN split(path, "/")
    ELSE
    With(split(bpath, "/"), LAMBDA all_parts :
    With((IF all_parts[Len(all_parts)] # ""
          THEN SubSeq(all_parts, 1, Len(all_parts) - 1) ELSE all_parts)
         \o split(path, "/"), LAMBDA joined :
    IF Len(joined) < 2 THEN joined
    ELSE <<joined[1]>>
         \o SelectSeq(SubSeq(joined, 2, Len(joined) - 1), LAMBDA x : x # "")
         \o <<joined[Len(joined)]>>))

ResolvedPath(segments) ==
    With(join("/", IF segments[Len(segments)] \in {".", ".."}
                   THEN Append(ResolveDots(segments, <<>>), "")
                   ELSE ResolveDots(segments, <<>>)), LAMBDA path :
    IF path = "" THEN "/" ELSE path)

\* urljoin(base, url), from the two split URLs.
JoinSplit(b, u, scheme, url) ==
    IF scheme # b.scheme \/ scheme \notin uses_relative THEN url
    ELSE IF scheme \in uses_netloc /\ u.netloc # ""
    THEN urlunsplit(scheme, u.netloc, u.path, u.query, u.fragment)
    ELSE IF u.path = ""
    THEN urlunsplit(scheme, IF scheme \in uses_netloc THEN b.netloc ELSE u.netloc,
                    b.path, IF u.query = "" THEN b.query ELSE u.query, u.fragment)
    ELSE urlunsplit(scheme, IF scheme \in uses_netloc THEN b.netloc ELSE u.netloc,
                    ResolvedPath(JoinedSegments(b.path, u.path)), u.query, u.fragment)

\* urljoin(base, url).  The path parameters (";") urlparse splits off occur in
\* no input.
urljoin(base, url) ==
    IF base = "" THEN url
    ELSE IF url = "" THEN base
    ELSE
    With(urlsplit(base), LAMBDA b :
    With(urlsplit(url), LAMBDA u :
    JoinSplit(b, u, IF u.scheme = "" THEN b.scheme ELSE u.scheme, url)))

----------------------------------------------------------------------------
(* build_absolute_uri and get_full_path *)

_get_full_path(h, inst, path, force_append_slash) ==
    With(LoadAttr(h, inst, "META"), LAMBDA META :
    IF Raised(META) THEN META
    ELSE
    With(MappingGet(h, META.val, "QUERY_STRING", Str("")), LAMBDA query_string :
    IF Raised(query_string) THEN query_string
    ELSE Return(Str(
            escape_uri_path(path)
            \o (IF force_append_slash /\ ~endswith(path, "/") THEN "/" ELSE "")
            \o (IF query_string.val.v # ""
                THEN "?" \o iri_to_uri(query_string.val.v) ELSE "")))))

get_full_path(h, inst, force_append_slash) ==
    With(LoadAttr(h, inst, "path"), LAMBDA path :
    IF Raised(path) THEN path
    ELSE _get_full_path(h, inst, path.val.v, force_append_slash))

\* The part of build_absolute_uri under "if not (bits.scheme and bits.netloc)".
\* self._current_scheme_host is read before self.path.
JoinToCurrent(h, inst, st, location, bits) ==
    With(cached_property(h, inst, st), LAMBDA current :
    IF Raised(current.res) THEN [res |-> current.res, heap |-> h, self |-> current.self]
    ELSE IF /\ startswith(bits.path, "/")
            /\ bits.scheme = ""
            /\ bits.netloc = ""
            /\ ~Contains(bits.path, "/./")
            /\ ~Contains(bits.path, "/../")
    THEN [res |-> Return(Str(iri_to_uri(
                      current.res.val.v \o removeprefix(location, "//")))),
          heap |-> h, self |-> current.self]
    ELSE
    With(LoadAttr(h, current.self, "path"), LAMBDA path :
    IF Raised(path) THEN [res |-> path, heap |-> h, self |-> current.self]
    ELSE [res |-> Return(Str(iri_to_uri(
                      urljoin(current.res.val.v \o path.val.v, location)))),
          heap |-> h, self |-> current.self]))

\* build_absolute_uri as it would be with the current scheme and host read
\* before the location is looked at.
absolute_uri_eager_host(h, inst, st, location) ==
    With(cached_property(h, inst, st), LAMBDA current :
    IF Raised(current.res) THEN [res |-> current.res, heap |-> h, self |-> current.self]
    ELSE
    With(urlsplit(location), LAMBDA bits :
    IF bits.exc # "" THEN [res |-> Raise(bits.exc, ""), heap |-> h, self |-> current.self]
    ELSE IF bits.scheme # "" /\ bits.netloc # ""
    THEN [res |-> Return(Str(iri_to_uri(location))), heap |-> h, self |-> current.self]
    ELSE JoinToCurrent(h, current.self, st, location, bits)))

\* build_absolute_uri once location is a str.
AbsoluteUri(h, inst, st, location) ==
    With(urlsplit(location), LAMBDA bits :
    IF bits.exc # "" THEN [res |-> Raise(bits.exc, ""), heap |-> h, self |-> inst]
    ELSE IF bits.scheme # "" /\ bits.netloc # ""
    THEN [res |-> Return(Str(iri_to_uri(location))), heap |-> h, self |-> inst]
    ELSE JoinToCurrent(h, inst, st, location, bits))

\* location is None or a str.
build_absolute_uri(h, inst, st, location) ==
    IF location = None
    THEN With(get_full_path(h, inst, FALSE), LAMBDA full_path :
         IF Raised(full_path) THEN [res |-> full_path, heap |-> h, self |-> inst]
         ELSE AbsoluteUri(h, inst, st, "//" \o full_path.val.v))
    ELSE AbsoluteUri(h, inst, st, location.v)

----------------------------------------------------------------------------
(* The state machine *)

\* The identities of the two mappings: the one given to the constructor and
\* the Channels scope it holds under "channels_scope".
ScopeId == "scope"
ChannelsId == "channels"

Call(op, name, value, result) ==
    /\ heap' = result.heap
    /\ self' = result.self
    /\ last' = [op |-> op, name |-> name, value |-> value, res |-> result.res]
    /\ UNCHANGED settings

\* DictAsObject(scope) on the mappings `mappings`, under `config`.
Construct(mappings, config) ==
    LET made == __init__(mappings, Ref(ScopeId)) IN
    /\ settings = config
    /\ heap = made.heap
    /\ self = made.self
    /\ last = [op |-> "__init__", name |-> "", value |-> Ref(ScopeId), res |-> made.res]

(* ---- the wrapper functions and the dict wrapper ---- *)

WrapperKeys == {"x", "channels_scope", "_scope"}
WrapperNames == WrapperKeys \cup {"_missing", "get_host"}
WrapperValues == {Str("a"), Ref(ChannelsId)}
ChannelsValues == {Str("b")}
WrapperSettings == [DEBUG |-> TRUE, ALLOWED_HOSTS |-> <<>>, USE_X_FORWARDED_HOST |-> FALSE]

InitWrapper ==
    \E scope \in {<<>>, [x |-> Str("a")], [channels_scope |-> Ref(ChannelsId)]},
       channels \in {<<>>, [x |-> Str("b")]} :
        Construct([id \in {ScopeId, ChannelsId} |->
                      IF id = ScopeId THEN scope ELSE channels], WrapperSettings)

GetAttr == \E name \in WrapperNames :
    Call("getattr", name, None, getattribute(heap, self, name))

SetAttr == \E name \in WrapperKeys, value \in WrapperValues :
    Call("setattr", name, value, __setattr__(heap, self, name, value))

AsDict == Call("_asdict", "", None, _asdict(heap, self))

GetItem == \E key \in WrapperKeys :
    Call("getitem", key, None, __getitem__(heap, self, key))

SetItem == \E key \in WrapperKeys, value \in WrapperValues :
    Call("setitem", key, value, __setitem__(heap, self, key, value))

DelItem == \E key \in WrapperKeys :
    Call("delitem", key, None, __delitem__(heap, self, key))

ContainsItem == \E key \in WrapperKeys :
    Call("contains", key, None, __contains__(heap, self, key))

\* The caller changes a mapping directly, not through the wrapper.
CallerSet == \E key \in WrapperKeys, value \in WrapperValues :
    Call("caller_set", key, value,
         [res |-> Return(None), self |-> self,
          heap |-> [heap EXCEPT ![ScopeId] = Put(@, key, value)]])

CallerDel == \E key \in WrapperKeys :
    /\ key \in DOMAIN heap[ScopeId]
    /\ Call("caller_del", key, None,
            [res |-> Return(None), self |-> self,
             heap |-> [heap EXCEPT ![ScopeId] = Del(@, key)]])

ChannelsSet == \E value \in ChannelsValues :
    Call("channels_set", "x", value,
         [res |-> Return(None), self |-> self,
          heap |-> [heap EXCEPT ![ChannelsId] = Put(@, "x", value)]])

ChannelsDel ==
    /\ "x" \in DOMAIN heap[ChannelsId]
    /\ Call("channels_del", "x", None,
            [res |-> Return(None), self |-> self,
             heap |-> [heap EXCEPT ![ChannelsId] = Del(@, "x")]])

NextWrapper ==
    \/ GetAttr
    \/ SetAttr
    \/ AsDict
    \/ GetItem
    \/ SetItem
    \/ DelItem
    \/ ContainsItem
    \/ CallerSet
    \/ CallerDel
    \/ ChannelsSet
    \/ ChannelsDel

SpecWrapper == InitWrapper /\ [][NextWrapper]_vars

----------------------------------------------------------------------------
(* build_meta on a scope whose headers the caller changes: SpecMeta *)

MaxHeaders == 2

\* Header pairs as ASGI gives them.  Two of them convert to the same META
\* key, one converts to QUERY_STRING, one holds a byte that is not UTF-8.
HeaderPool ==
    { <<encode("host"), encode("example.com")>>,
      <<encode("Host"), encode("evil.org:80")>>,
      <<encode("x-forwarded-host"), encode("a.example.com")>>,
      <<encode("query-string"), encode("zz")>>,
      <<encode("x-bad"), <<255>>>> }

QueryStrings == {encode(""), encode("a=1")}

MetaSettings == [DEBUG |-> FALSE, ALLOWED_HOSTS |-> <<".example.com">>,
                 USE_X_FORWARDED_HOST |-> FALSE]

InitMeta ==
    \E channels \in {[path |-> Str("/graphql/")],
                     [path |-> Str("/graphql/"), headers |-> List(<<>>)]} :
        Construct([id \in {ScopeId, ChannelsId} |->
                      IF id = ScopeId THEN [channels_scope |-> Ref(ChannelsId)]
                      ELSE channels], MetaSettings)

\* A direct change of the Channels scope by its owner.
ChannelsChange(op, name, value, mapping) ==
    Call(op, name, value,
         [res |-> Return(None), self |-> self,
          heap |-> [heap EXCEPT ![ChannelsId] = mapping]])

ResetHeaders ==
    ChannelsChange("reset_headers", "headers", List(<<>>),
                   Put(heap[ChannelsId], "headers", List(<<>>)))

AppendHeader == \E pair \in HeaderPool :
    /\ "headers" \in DOMAIN heap[ChannelsId]
    /\ Len(heap[ChannelsId]["headers"].v) < MaxHeaders
    /\ ChannelsChange("append_header", "headers", Bytes(pair[1]),
                      Put(heap[ChannelsId], "headers",
                          List(Append(heap[ChannelsId]["headers"].v, pair))))

DropHeaders ==
    /\ "headers" \in DOMAIN heap[ChannelsId]
    /\ ChannelsChange("drop_headers", "headers", None, Del(heap[ChannelsId], "headers"))

SetQueryString == \E query \in QueryStrings :
    ChannelsChange("set_query_string", "query_string", Bytes(query),
                   Put(heap[ChannelsId], "query_string", Bytes(query)))

DropQueryString ==
    /\ "query_string" \in DOMAIN heap[ChannelsId]
    /\ ChannelsChange("drop_query_string", "query_string", None,
                      Del(heap[ChannelsId], "query_string"))

BuildMeta == Call("build_meta", "", None, build_meta(heap, self))

NextMeta ==
    \/ BuildMeta
    \/ ResetHeaders
    \/ AppendHeader
    \/ DropHeaders
    \/ SetQueryString
    \/ DropQueryString

SpecMeta == InitMeta /\ [][NextMeta]_vars

----------------------------------------------------------------------------
(* Host resolution and absolute URIs: SpecRequest *)

RequestSettings ==
    [DEBUG : BOOLEAN, ALLOWED_HOSTS : {<<>>, <<".example.com">>},
     USE_X_FORWARDED_HOST : BOOLEAN]

\* The Host header of the connection, if any, and the X-Forwarded-Host
\* header, if any.
HostHeaders ==
    {<<>>} \cup { <<<<encode("host"), encode(host)>>>> :
                    host \in {"Example.com:8000", "evil.org", "", "bad_host"} }
ForwardedHeaders ==
    {<<>>, <<<<encode("x-forwarded-host"), encode("[::1]:8000")>>>>}
RequestHeaders == {host \o forwarded : host \in HostHeaders, forwarded \in ForwardedHeaders}

Locations ==
    { None, Str("https://static.example.net/a b?v=1"), Str("/next?page=2"),
      Str("//static.example.net/app.js"), Str("../up"), Str("mailto:admin") }

InitRequest ==
    \E headers \in RequestHeaders, config \in RequestSettings :
        Construct([id \in {ScopeId, ChannelsId} |->
                      IF id = ScopeId THEN [channels_scope |-> Ref(ChannelsId)]
                      ELSE [path |-> Str("/graphql/"), headers |-> List(headers),
                            query_string |-> Bytes(encode("a=1"))]], config)

ReplaceHeaders == \E headers \in RequestHeaders :
    ChannelsChange("replace_headers", "headers", List(headers),
                   Put(heap[ChannelsId], "headers", List(headers)))

RebuildMeta == Call("build_meta", "", None, build_meta(heap, self))

GetHost ==
    Call("get_host", "", None,
         [res |-> get_host(heap, self, settings), heap |-> heap, self |-> self])

BuildAbsoluteUri == \E location \in Locations :
    Call("build_absolute_uri", "", location,
         build_absolute_uri(heap, self, settings, location))

NextRequest ==
    \/ ReplaceHeaders
    \/ RebuildMeta
    \/ GetHost
    \/ BuildAbsoluteUri

SpecRequest == InitRequest /\ [][NextRequest]_vars

----------------------------------------------------------------------------
(* Claims about the wrapper functions, under SpecWrapper *)

\* The attribute names __getattr__ routes to the scope: no underscore, no method.
RoutedNames == {name \in WrapperNames : ~startswith(name, "_") /\ name \notin Methods}

BoundToMapping == self["_scope"].t = "ref"
Primary == heap[self["_scope"].v]
HasFallback == "channels_scope" \in DOMAIN Primary /\ Primary["channels_scope"].t = "ref"
Fallback == heap[Primary["channels_scope"].v]

\* C1: reading a routed name that is a key of neither the primary mapping nor
\* the fallback mapping under "channels_scope" raises AttributeError, also
\* when the primary mapping has no "channels_scope" key (never KeyError), and
\* the read leaves the mappings and the wrapper unchanged.
C1_MissingAttributeRaisesAttributeError ==
    \A name \in RoutedNames :
        LET read == getattribute(heap, self, name) IN
        ( /\ BoundToMapping
          /\ name \notin DOMAIN Primary
          /\ \/ "channels_scope" \notin DOMAIN Primary
             \/ HasFallback /\ name \notin DOMAIN Fallback )
        => /\ read.res.exc = "AttributeError"
           /\ read.heap = heap
           /\ read.self = self

\* A read of "x" has just failed on a scope that has no "channels_scope" key.
C1_Witness ==
    /\ last.op = "getattr" /\ last.name = "x"
    /\ last.res.exc = "AttributeError"
    /\ BoundToMapping
    /\ DOMAIN Primary \cap {"x", "channels_scope"} = {}

\* C2: a routed name that is a key of the primary mapping reads as the
\* primary mapping's value, whatever the fallback holds; the read returns the
\* fallback's value exactly when the name is absent from the primary mapping
\* and present in the fallback.
C2_PrimaryThenFallback ==
    \A name \in RoutedNames :
        LET read == getattribute(heap, self, name).res IN
        BoundToMapping =>
            /\ name \in DOMAIN Primary => read = Return(Primary[name])
            /\ (name \notin DOMAIN Primary /\ HasFallback /\ name \in DOMAIN Fallback)
                   => read = Return(Fallback[name])
            /\ (name \notin DOMAIN Primary /\ ~Raised(read))
                   => HasFallback /\ name \in DOMAIN Fallback

\* A read of "x" has just returned the primary value although the fallback
\* holds another value for "x".
C2_Witness ==
    /\ last.op = "getattr" /\ last.name = "x"
    /\ BoundToMapping /\ HasFallback
    /\ "x" \in DOMAIN Primary /\ "x" \in DOMAIN Fallback
    /\ Primary["x"] # Fallback["x"]
    /\ last.res = Return(Primary["x"])

\* What the wrapper shows of the mapping given to the constructor: _asdict()
\* is that very mapping, item reads and membership tests agree with its
\* current content, and the last write through the wrapper is in it.
SharesConstructorMapping ==
    /\ _asdict(heap, self).res = Return(Ref(ScopeId))
    /\ \A key \in WrapperKeys :
          /\ __contains__(heap, self, key).res = Return(Bool(key \in DOMAIN heap[ScopeId]))
          /\ __getitem__(heap, self, key).res =
                 IF key \in DOMAIN heap[ScopeId]
                 THEN Return(heap[ScopeId][key]) ELSE Raise("KeyError", key)
    /\ (last.op \in {"setattr", "setitem"} /\ ~Raised(last.res))
           => (last.name \in DOMAIN heap[ScopeId] /\ heap[ScopeId][last.name] = last.value)
    /\ (last.op = "delitem" /\ ~Raised(last.res)) => last.name \notin DOMAIN heap[ScopeId]

\* C3 as stated: after any sequence of attribute assignments, item
\* assignments and item deletions through the wrapper and of direct changes
\* by the caller, the wrapper still shows the constructor's mapping.
C3_AnyAssignmentKeepsMapping == SharesConstructorMapping

\* C3, amended: the wrapper shows the constructor's mapping after
\* construction, and every step other than an assignment to the attribute
\* _scope keeps it so.
C3_MappingSharedUnlessRebound ==
    /\ SharesConstructorMapping
    /\ [][ \/ last'.op = "setattr" /\ last'.name = "_scope"
           \/ SharesConstructorMapping => SharesConstructorMapping' ]_vars

\* An item assignment through the wrapper has just landed in the
\* constructor's mapping, after the caller changed that mapping directly.
C3_Witness ==
    /\ last.op = "setitem" /\ last.name = "x" /\ last.value = Str("a")
    /\ SharesConstructorMapping
    /\ heap[ScopeId]["x"] = Str("a")
    /\ "channels_scope" \in DOMAIN heap[ScopeId]
    /\ heap[ScopeId]["channels_scope"] = Str("a")

----------------------------------------------------------------------------
(* Claims about build_meta, under SpecMeta *)

Channels == heap[ChannelsId]
HeadersNow == IF "headers" \in DOMAIN Channels THEN Channels["headers"].v ELSE <<>>
QueryStringNow ==
    IF "query_string" \in DOMAIN Channels THEN Channels["query_string"].v ELSE <<>>

\* The META key a header name converts to.
MetaKey(name) == upper(replace(decode(name).val.v, "-", "_"))

\* The dictionary the claim describes, stated without the loop: one entry per
\* converted header name, holding the value of the last header that converts
\* to it, and QUERY_STRING holding the decoded query string.
DescribedMeta(headers, query_string) ==
    [key \in {MetaKey(headers[i][1]) : i \in 1..Len(headers)} \cup {"QUERY_STRING"} |->
        IF key = "QUERY_STRING" THEN decode(query_string).val
        ELSE decode(headers[CHOOSE i \in 1..Len(headers) :
                               /\ MetaKey(headers[i][1]) = key
                               /\ \A j \in (i + 1)..Len(headers) :
                                      MetaKey(headers[j][1]) # key][2]).val]

\* C5: after build_meta() the primary mapping's "META" is exactly the
\* dictionary built from the fallback's headers (none when absent): names
\* decoded, "-" replaced by "_", upper-cased, no prefix; values decoded; a
\* later header overwrites an earlier one of the same converted name;
\* QUERY_STRING is the decoded query string (empty when absent) and overrides
\* a header of that name; the earlier META is replaced entirely, and a second
\* build_meta on the unchanged scope changes nothing.
C5_MetaIsBuiltFromHeaders ==
    (last.op = "build_meta" /\ ~Raised(last.res)) =>
        /\ "META" \in DOMAIN heap[ScopeId]
        /\ heap[ScopeId]["META"] = Dict(DescribedMeta(HeadersNow, QueryStringNow))
        /\ build_meta(heap, self).heap = heap

\* build_meta has just run on two headers of the same converted name and a
\* query string: the later header's value is the one in META.
C5_Witness ==
    /\ last.op = "build_meta" /\ ~Raised(last.res)
    /\ HeadersNow = << <<encode("host"), encode("example.com")>>,
                       <<encode("Host"), encode("evil.org:80")>> >>
    /\ QueryStringNow = encode("a=1")
    /\ heap[ScopeId]["META"] =
           Dict([HOST |-> Str("evil.org:80"), QUERY_STRING |-> Str("a=1")])

----------------------------------------------------------------------------
(* Claims about get_host and build_absolute_uri, under SpecRequest *)

MetaNow == LoadAttr(heap, self, "META")
MetaReadable == ~Raised(MetaNow) /\ MetaNow.val.t = "dict"
RawHostNow == _get_raw_host(heap, self, settings)
HostNow == get_host(heap, self, settings)
DomainNow == split_domain_port(RawHostNow.val.v).domain
Validates == DomainNow # "" /\ validate_host(DomainNow, AllowedHosts(settings))

\* C4 as stated: whenever the resolved host does not validate, get_host
\* raises DisallowedHost with a message that suggests adding the domain to
\* ALLOWED_HOSTS, also when the domain part is empty or malformed.
C4_DisallowedHostAlwaysSuggestsAllowList ==
    (MetaReadable /\ ~Validates) =>
        /\ HostNow.exc = "DisallowedHost"
        /\ Contains(HostNow.msg, "ALLOWED_HOSTS")

\* C4, amended: whenever the resolved host does not validate, get_host raises
\* DisallowedHost and never returns the host; the message names the host, and
\* it suggests adding the domain to ALLOWED_HOSTS exactly when the domain part
\* is not empty; for an empty or malformed domain it says that the domain
\* name is not valid according to RFC 1034/1035.
C4_DisallowedHostMessage ==
    (MetaReadable /\ ~Validates) =>
        /\ HostNow.exc = "DisallowedHost"
        /\ Contains(HostNow.msg, "'" \o RawHostNow.val.v \o "'")
        /\ IF DomainNow # ""
           THEN Contains(HostNow.msg, "add '" \o DomainNow \o "' to ALLOWED_HOSTS")
           ELSE /\ ~Contains(HostNow.msg, "ALLOWED_HOSTS")
                /\ Contains(HostNow.msg, "not valid according to RFC 1034/1035")

\* get_host has just refused a host with a malformed domain part.
C4_Witness ==
    /\ last.op = "get_host" /\ last.res.exc = "DisallowedHost"
    /\ MetaReadable
    /\ RawHostNow = Return(Str("bad_host"))
    /\ DomainNow = ""

\* C7: the raw host is META["X_FORWARDED_HOST"] if and only if
\* USE_X_FORWARDED_HOST is enabled and the key is present, otherwise
\* META["HOST"] if present, otherwise "localhost"; with the setting disabled
\* a present X_FORWARDED_HOST entry does not influence get_host.
C7_RawHostPreference ==
    MetaReadable =>
        /\ RawHostNow =
               Return(IF /\ settings.USE_X_FORWARDED_HOST
                         /\ "X_FORWARDED_HOST" \in DOMAIN MetaNow.val.v
                      THEN MetaNow.val.v["X_FORWARDED_HOST"]
                      ELSE IF "HOST" \in DOMAIN MetaNow.val.v
                      THEN MetaNow.val.v["HOST"]
                      ELSE Str("localhost"))
        /\ ~settings.USE_X_FORWARDED_HOST =>
               HostNow = get_host(
                   [heap EXCEPT ![ScopeId] =
                       Put(@, "META", Dict(Del(MetaNow.val.v, "X_FORWARDED_HOST")))],
                   self, settings)

\* get_host has just answered from HOST although X_FORWARDED_HOST is in META:
\* the setting is disabled.
C7_Witness ==
    /\ last.op = "get_host"
    /\ MetaReadable
    /\ ~settings.USE_X_FORWARDED_HOST
    /\ {"X_FORWARDED_HOST", "HOST"} \subseteq DOMAIN MetaNow.val.v
    /\ MetaNow.val.v["X_FORWARDED_HOST"] # MetaNow.val.v["HOST"]
    /\ last.res = Return(MetaNow.val.v["HOST"])

LocalhostVariants == <<".localhost", "127.0.0.1", "[::1]">>

\* C8: the localhost variants stand in for the allow-list only when
\* ALLOWED_HOSTS is empty and DEBUG is true; there a request without host
\* headers gets "localhost"; with DEBUG false and ALLOWED_HOSTS empty get_host
\* raises DisallowedHost whatever the host; when get_host succeeds it returns
\* the raw host unchanged, port included.
C8_LocalhostVariantsOnlyInDebug ==
    MetaReadable =>
        /\ ~Raised(HostNow) <=>
               /\ DomainNow # ""
               /\ validate_host(DomainNow,
                                IF settings.DEBUG /\ settings.ALLOWED_HOSTS = <<>>
                                THEN LocalhostVariants ELSE settings.ALLOWED_HOSTS)
        /\ ( /\ settings.DEBUG /\ settings.ALLOWED_HOSTS = <<>>
             /\ DOMAIN MetaNow.val.v \cap {"HOST", "X_FORWARDED_HOST"} = {} )
               => HostNow = Return(Str("localhost"))
        /\ (~settings.DEBUG /\ settings.ALLOWED_HOSTS = <<>>)
               => HostNow.exc = "DisallowedHost"
        /\ ~Raised(HostNow) => HostNow = RawHostNow

\* get_host has just returned "localhost" to a request without host headers,
\* under DEBUG and an empty ALLOWED_HOSTS.
C8_Witness ==
    /\ last.op = "get_host" /\ last.res = Return(Str("localhost"))
    /\ settings.DEBUG /\ settings.ALLOWED_HOSTS = <<>>
    /\ MetaReadable
    /\ DOMAIN MetaNow.val.v \cap {"HOST", "X_FORWARDED_HOST"} = {}

\* The locations that have both a scheme and a network location, and the rest.
GivenLocations == Locations \ {None}
IsAbsolute(location) ==
    urlsplit(location.v).scheme # "" /\ urlsplit(location.v).netloc # ""
Cached == "_current_scheme_host" \in DOMAIN self

\* A location with scheme and network location comes back as its URI, whatever
\* the request and the settings; nothing is computed or cached.
AbsoluteLocationReturned ==
    \A location \in GivenLocations :
        IsAbsolute(location) =>
            build_absolute_uri(heap, self, settings, location) =
                [res |-> Return(Str(iri_to_uri(location.v))), heap |-> heap, self |-> self]

\* C6 as stated: a location with scheme and network location is returned
\* without consulting the request, and for a location lacking one of them the
\* call raises DisallowedHost when the request's host is not allowed.
C6_RelativeLocationAlwaysResolvesHost ==
    /\ AbsoluteLocationReturned
    /\ \A location \in GivenLocations :
           (~IsAbsolute(location) /\ HostNow.exc = "DisallowedHost") =>
               build_absolute_uri(heap, self, settings, location).res.exc = "DisallowedHost"

\* C6, amended: a location with scheme and network location is returned
\* without consulting the request; for a location lacking one of them the call
\* resolves the host, and raises DisallowedHost when it is not allowed, unless
\* an earlier call has cached the scheme and host: then the cached value is
\* used as it is and the host is not resolved again.
C6_RelativeLocationResolvesHostOnce ==
    /\ AbsoluteLocationReturned
    /\ \A location \in GivenLocations :
           ~IsAbsolute(location) =>
               LET built == build_absolute_uri(heap, self, settings, location) IN
               IF Cached
               THEN /\ built.res.exc # "DisallowedHost"
                    /\ built.self = self
                    /\ built = build_absolute_uri(heap, self,
                                   [settings EXCEPT !.ALLOWED_HOSTS = <<>>, !.DEBUG = FALSE],
                                   location)
               ELSE /\ HostNow.exc = "DisallowedHost" =>
                        (built.res = HostNow /\ built.self = self)
                    /\ ~Raised(HostNow) =>
                        /\ ~Raised(built.res)
                        /\ built.self = Put(self, "_current_scheme_host",
                               Str((IF settings.DEBUG THEN "http" ELSE "https")
                                   \o "://" \o HostNow.val.v))

\* build_absolute_uri has just returned an absolute location, percent-encoded,
\* on a request whose host is not allowed; nothing is cached.
C6_Witness ==
    /\ last.op = "build_absolute_uri"
    /\ last.value = Str("https://static.example.net/a b?v=1")
    /\ last.res = Return(Str("https://static.example.net/a%20b?v=1"))
    /\ HostNow.exc = "DisallowedHost"
    /\ ~Cached

====
